---- MODULE Spec2Model ----
(***************************************************************************)
(* Vault security subsystem of the password manager:                       *)
(*   SecurityServiceImpl          (services/master-password-service.ts)    *)
(*   ChromeStoragePasswordService (services/password-service.ts)           *)
(*                                                                         *)
(* JavaScript is single threaded: code between two awaits that wait on the *)
(* host (chrome.storage, dynamic import) runs atomically, so every action   *)
(* below is one such run.  Awaits on already computed promises (an async   *)
(* method of the service itself) only yield to microtasks and are not      *)
(* interleaving points.                                                    *)
(*                                                                         *)
(* Strings are sequences of one-character strings.  PBKDF2 is modelled as  *)
(* an injective tagging of its input string (no collisions).  A stored     *)
(* field is a plaintext with the stack of AES keys it was encrypted under; *)
(* the random salt of a ciphertext token is not represented.               *)
(***************************************************************************)
EXTENDS Integers, Sequences, FiniteSets, TLC

(* ------------------------------ bounds -------------------------------- *)
MaxTime == 20        \* the clock (minutes) stops advancing here
MaxRecords == 2      \* records the password store may hold
MaxLayers == 2       \* nesting depth of AES layers on one field

TickMinutes == 10    \* granularity of the passage of time between events

(* ------------------------- program constants -------------------------- *)
DEFAULT_AUTO_LOCK_MINUTES == 15
MinPasswordLength == 8

Null == <<>>

(* ------------------------------ strings ------------------------------- *)
LowerChars == {"a","b","c","d","e","f","g","h","i","n","o","p","r","s","t","y"}
UpperChars == {"A"}
DigitChars == {"1"}
SymbolChars == {"@","$","!","%","*","?","&"}

EncSuffix == <<"_","e","n","c","r","y","p","t","i","o","n">>

PwA == <<"A","b","c","d","e","f","1","!">>
PwAEnc == PwA \o EncSuffix
PwWeak8 == <<"a","b","c","d","e","f","g","h">>
PwShort == <<"s","h","o","r","t","1","!">>

Passwords == {PwA, PwAEnc, PwWeak8, PwShort}

HasChar(s, cls) == \E i \in 1..Len(s) : s[i] \in cls

(* ---------------------------- key derivation -------------------------- *)
PBKDF2(s) == <<"pbkdf2", s>>

VerifyHash(p) == PBKDF2(p)

\* the encryption key derived from the password itself
EncryptionKey_NoSuffix(p) == PBKDF2(p)

EncryptionKey(p) == PBKDF2(p \o EncSuffix)

(* ------------------------------- cipher ------------------------------- *)
EmptyStr == [pt |-> "", ks |-> <<>>]
Garbage == [pt |-> "<garbage>", ks |-> <<>>]

Plain(s) == [pt |-> s, ks |-> <<>>]

Last(s) == s[Len(s)]
Front(s) == SubSeq(s, 1, Len(s) - 1)

IsCiphertextUnder(v, k) == v.ks # <<>> /\ Last(v.ks) = k

AESEncrypt(v, k) == [pt |-> v.pt, ks |-> Append(v.ks, k)]

\* the values bytes.toString(Utf8) can produce, <<>> standing for the
\* 'Malformed UTF-8 data' exception
\* decryption that reports an empty plaintext as a failure
AESDecrypt_EmptyFails(v, k) ==
    IF IsCiphertextUnder(v, k) /\ ~(v.pt = "" /\ Len(v.ks) = 1)
    THEN { <<[pt |-> v.pt, ks |-> Front(v.ks)]>> }
    ELSE { <<>>, <<EmptyStr>>, <<Garbage>> }

AESDecrypt(v, k) ==
    IF IsCiphertextUnder(v, k)
    THEN { <<[pt |-> v.pt, ks |-> Front(v.ks)]>> }
    ELSE { <<>>, <<EmptyStr>>, <<Garbage>> }

Falsy(r) == r = <<>> \/ r[1] = EmptyStr

\* r || fallback
OrElse(r, fallback) == IF Falsy(r) THEN fallback ELSE r[1]

(* ------------------------------- state -------------------------------- *)
VARIABLES
    isLocked,            \* state.isLocked
    masterPasswordHash,  \* state.masterPasswordHash, Null when absent
    encryptionKey,       \* state.encryptionKey, Null when absent
    autoLockTimer,       \* state.autoLockTimer: a timer id, 0 when null
    lastActivity,        \* state.lastActivity
    timers,              \* timeouts pending in the runtime: [id, due]
    now,                 \* Date.now(), in minutes
    localStorage,        \* localStorage[STORAGE_KEY]: Null or <<record>>
    chromeStorage,       \* chrome.storage.local password_manager_passwords
    cmp,                 \* activation of changeMasterPassword
    rst,                 \* activation of resetSecurity
    ps,                  \* activation of a password service write
    ret                  \* outcome of the call that returned last

vars == <<isLocked, masterPasswordHash, encryptionKey, autoLockTimer, lastActivity,
          timers, now, localStorage, chromeStorage, cmp, rst, ps, ret>>

Idle == [pc |-> "idle"]

Ret(op, out, val) == [op |-> op, out |-> out, val |-> val]

\* the in-memory state the methods of the service work on
Mem ==
    [isLocked |-> isLocked, masterPasswordHash |-> masterPasswordHash,
     encryptionKey |-> encryptionKey, autoLockTimer |-> autoLockTimer,
     lastActivity |-> lastActivity, timers |-> timers]

Install(m) ==
    /\ isLocked' = m.isLocked
    /\ masterPasswordHash' = m.masterPasswordHash
    /\ encryptionKey' = m.encryptionKey
    /\ autoLockTimer' = m.autoLockTimer
    /\ lastActivity' = m.lastActivity
    /\ timers' = m.timers

(* ------------------------- private helpers ---------------------------- *)
loadSecurityState(m) ==
    IF localStorage # Null
    THEN [m EXCEPT !.masterPasswordHash = localStorage[1].masterPasswordHash,
                   !.isLocked = localStorage[1].masterPasswordHash # Null]
    ELSE m

\* the stored item after saveSecurityState; setItem may throw, which is
\* caught and logged
saveSecurityState(m, ok) ==
    IF ok THEN <<[masterPasswordHash |-> m.masterPasswordHash,
                  lastActivity |-> m.lastActivity]>>
    ELSE localStorage

clearAutoLockTimer(m) ==
    IF m.autoLockTimer # 0
    THEN [m EXCEPT !.timers = {t \in m.timers : t.id # m.autoLockTimer},
                   !.autoLockTimer = 0]
    ELSE m

NewTimerId(pending) ==
    CHOOSE i \in 1..(Cardinality(pending) + 1) : \A t \in pending : t.id # i

\* setAutoLockTimer without the clearAutoLockTimer call it starts with
setAutoLockTimer_NoClear(m, minutes) ==
    LET id == NewTimerId(m.timers)
    IN  [m EXCEPT !.autoLockTimer = id,
                  !.timers = m.timers \cup {[id |-> id, due |-> now + minutes]}]

setAutoLockTimer(m, minutes) ==
    LET c == clearAutoLockTimer(m)
        id == NewTimerId(c.timers)
    IN  [c EXCEPT !.autoLockTimer = id,
                  !.timers = c.timers \cup {[id |-> id, due |-> now + minutes]}]

updateActivity(m) ==
    LET a == [m EXCEPT !.lastActivity = now]
    IN  IF ~a.isLocked THEN setAutoLockTimer(a, DEFAULT_AUTO_LOCK_MINUTES) ELSE a

\* lockVault leaving the encryption key in memory
lockVault_KeepKey(m) ==
    clearAutoLockTimer([m EXCEPT !.isLocked = TRUE])

lockVault(m) ==
    clearAutoLockTimer([m EXCEPT !.isLocked = TRUE, !.encryptionKey = Null])

\* unlockVault without the comparison of the hashes
unlockVault_NoCompare(m, masterPassword) ==
    <<setAutoLockTimer([m EXCEPT !.encryptionKey = EncryptionKey(masterPassword),
                                 !.isLocked = FALSE,
                                 !.lastActivity = now],
                       DEFAULT_AUTO_LOCK_MINUTES), TRUE>>

\* unlockVault locking the vault when the password is refused
unlockVault_LockOnMismatch(m, masterPassword) ==
    IF VerifyHash(masterPassword) # m.masterPasswordHash
    THEN <<lockVault(m), FALSE>>
    ELSE <<setAutoLockTimer([m EXCEPT !.encryptionKey = EncryptionKey(masterPassword),
                                      !.isLocked = FALSE,
                                      !.lastActivity = now],
                            DEFAULT_AUTO_LOCK_MINUTES), TRUE>>

\* unlockVault deriving the key without the "_encryption" suffix
unlockVault_KeyFromHash(m, masterPassword) ==
    IF VerifyHash(masterPassword) # m.masterPasswordHash
    THEN <<m, FALSE>>
    ELSE <<setAutoLockTimer([m EXCEPT !.encryptionKey = PBKDF2(masterPassword),
                                      !.isLocked = FALSE,
                                      !.lastActivity = now],
                            DEFAULT_AUTO_LOCK_MINUTES), TRUE>>

\* unlockVault on a vault with a master password: <<memory, result>>
unlockVault(m, masterPassword) ==
    IF VerifyHash(masterPassword) # m.masterPasswordHash
    THEN <<m, FALSE>>
    ELSE <<setAutoLockTimer([m EXCEPT !.encryptionKey = EncryptionKey(masterPassword),
                                      !.isLocked = FALSE,
                                      !.lastActivity = now],
                            DEFAULT_AUTO_LOCK_MINUTES), TRUE>>

validateMasterPassword(password) ==
    /\ Len(password) >= MinPasswordLength
    /\ HasChar(password, LowerChars)
    /\ HasChar(password, UpperChars)
    /\ HasChar(password, DigitChars)
    /\ HasChar(password, SymbolChars)

(* ---------------- helpers of the password service --------------------- *)
generateId(passwords) ==
    CHOOSE i \in 1..(Len(passwords) + 1) : \A j \in 1..Len(passwords) : passwords[j].id # i

WithinLayers(passwords) ==
    \A i \in 1..Len(passwords) :
        /\ Len(passwords[i].username.ks) <= MaxLayers
        /\ Len(passwords[i].password.ks) <= MaxLayers

\* a merge that ignores the fields update was called with
Merge_KeepOld(old, entry) ==
    [f \in DOMAIN old |-> old[f]]

\* { ...old, ...entry }
Merge(old, entry) ==
    [f \in DOMAIN old |-> IF f \in DOMAIN entry THEN entry[f] ELSE old[f]]

\* encryptSensitiveData: <<memory, entry>> afterwards
encryptSensitiveData(m, entry) ==
    LET h == loadSecurityState(m)
    IN  IF h.masterPasswordHash # Null /\ ~h.isLocked /\ h.encryptionKey # Null
        THEN <<updateActivity(h),
               [entry EXCEPT !.password = AESEncrypt(@, h.encryptionKey),
                             !.username = AESEncrypt(@, h.encryptionKey)]>>
        ELSE <<h, entry>>

\* decryptSensitiveData: the possible <<memory, entry>> afterwards
decryptSensitiveData(m, entry) ==
    LET h == loadSecurityState(m)
    IN  IF h.masterPasswordHash # Null /\ ~h.isLocked /\ h.encryptionKey # Null
        THEN { <<updateActivity(h),
                 [entry EXCEPT !.password = OrElse(dp, entry.password),
                               !.username = OrElse(du, entry.username)]>> :
               dp \in AESDecrypt(entry.password, h.encryptionKey),
               du \in AESDecrypt(entry.username, h.encryptionKey) }
        ELSE { <<h, entry>> }

\* getAll: the possible <<memory, entries>> afterwards
RECURSIVE getAll(_, _)
getAll(m, passwords) ==
    IF passwords = <<>> THEN { <<m, <<>>>> }
    ELSE UNION { { <<rest[1], <<d[2]>> \o rest[2]>> : rest \in getAll(d[1], Tail(passwords)) } :
                 d \in decryptSensitiveData(m, Head(passwords)) }

\* passwords.map(p => ({...p, password: decryptData(p.password) || p.password}))
RECURSIVE DecryptPasswords(_, _)
DecryptPasswords(passwords, key) ==
    IF passwords = <<>> THEN { <<>> }
    ELSE { <<[Head(passwords) EXCEPT !.password = OrElse(r, @)]>> \o rest :
           r \in AESDecrypt(Head(passwords).password, key),
           rest \in DecryptPasswords(Tail(passwords), key) }

(* ------------------------------- Init --------------------------------- *)
\* a fresh install: the constructor finds no stored security state
Init ==
    /\ isLocked = TRUE
    /\ masterPasswordHash = Null
    /\ encryptionKey = Null
    /\ autoLockTimer = 0
    /\ lastActivity = 0
    /\ timers = {}
    /\ now = 0
    /\ localStorage = Null
    /\ chromeStorage = <<>>
    /\ cmp = Idle
    /\ rst = Idle
    /\ ps = Idle
    /\ ret = Ret("constructor", "ok", <<>>)

(* ----------------------- SecurityServiceImpl -------------------------- *)
SetMasterPassword(password) ==
    IF Len(password) < MinPasswordLength
    THEN /\ ret' = Ret("setMasterPassword", "WeakPassword", <<>>)
         /\ UNCHANGED <<isLocked, masterPasswordHash, encryptionKey, autoLockTimer,
                        lastActivity, timers, now, localStorage, chromeStorage,
                        cmp, rst, ps>>
    ELSE \E saved \in BOOLEAN :
         LET m == [Mem EXCEPT !.masterPasswordHash = VerifyHash(password),
                              !.encryptionKey = EncryptionKey(password),
                              !.isLocked = FALSE,
                              !.lastActivity = now]
         IN  /\ localStorage' = saveSecurityState(m, saved)
             /\ Install(setAutoLockTimer(m, DEFAULT_AUTO_LOCK_MINUTES))
             /\ ret' = Ret("setMasterPassword", "ok", <<>>)
             /\ UNCHANGED <<now, chromeStorage, cmp, rst, ps>>

UnlockVault(masterPassword) ==
    IF masterPasswordHash = Null
    THEN /\ ret' = Ret("unlockVault", "NoMasterPassword", <<>>)
         /\ UNCHANGED <<isLocked, masterPasswordHash, encryptionKey, autoLockTimer,
                        lastActivity, timers, now, localStorage, chromeStorage,
                        cmp, rst, ps>>
    ELSE LET u == unlockVault(Mem, masterPassword)
         IN  /\ Install(u[1])
             /\ ret' = Ret("unlockVault", IF u[2] THEN "true" ELSE "false", <<>>)
             /\ UNCHANGED <<now, localStorage, chromeStorage, cmp, rst, ps>>

LockVault ==
    /\ Install(lockVault(Mem))
    /\ ret' = Ret("lockVault", "ok", <<>>)
    /\ UNCHANGED <<now, localStorage, chromeStorage, cmp, rst, ps>>

IsLocked ==
    /\ ret' = Ret("isLocked", IF isLocked THEN "true" ELSE "false", <<>>)
    /\ UNCHANGED <<isLocked, masterPasswordHash, encryptionKey, autoLockTimer,
                   lastActivity, timers, now, localStorage, chromeStorage,
                   cmp, rst, ps>>

HasMasterPassword ==
    LET m == loadSecurityState(Mem)
    IN  /\ Install(m)
        /\ ret' = Ret("hasMasterPassword",
                      IF m.masterPasswordHash # Null THEN "true" ELSE "false", <<>>)
        /\ UNCHANGED <<now, localStorage, chromeStorage, cmp, rst, ps>>

EncryptData(data) ==
    IF encryptionKey = Null
    THEN /\ ret' = Ret("encryptData", "VaultLocked", <<>>)
         /\ UNCHANGED <<isLocked, masterPasswordHash, encryptionKey, autoLockTimer,
                        lastActivity, timers, now, localStorage, chromeStorage,
                        cmp, rst, ps>>
    ELSE /\ Len(data.ks) < MaxLayers
         /\ Install(updateActivity(Mem))
         /\ ret' = Ret("encryptData", "ok", <<AESEncrypt(data, encryptionKey)>>)
         /\ UNCHANGED <<now, localStorage, chromeStorage, cmp, rst, ps>>

DecryptData(encryptedData) ==
    IF encryptionKey = Null
    THEN /\ ret' = Ret("decryptData", "VaultLocked", <<>>)
         /\ UNCHANGED <<isLocked, masterPasswordHash, encryptionKey, autoLockTimer,
                        lastActivity, timers, now, localStorage, chromeStorage,
                        cmp, rst, ps>>
    ELSE \E r \in AESDecrypt(encryptedData, encryptionKey) :
         /\ Install(updateActivity(Mem))
         /\ ret' = Ret("decryptData", IF r = <<>> THEN "null" ELSE "ok", r)
         /\ UNCHANGED <<now, localStorage, chromeStorage, cmp, rst, ps>>

\* changeMasterPassword up to its first wait on the host (the dynamic
\* import and the chrome.storage read of getAll).  One activation at a
\* time: the form that calls it is disabled while the call runs.
ChangeMasterPassword(currentPassword, newPassword) ==
    /\ cmp.pc = "idle"
    /\ IF masterPasswordHash = Null
       THEN /\ ret' = Ret("changeMasterPassword", "NoMasterPassword", <<>>)
            /\ UNCHANGED <<isLocked, masterPasswordHash, encryptionKey, autoLockTimer,
                           lastActivity, timers, cmp>>
       ELSE LET u == unlockVault(Mem, currentPassword)
            IN  /\ Install(u[1])
                /\ IF ~u[2]
                   THEN /\ ret' = Ret("changeMasterPassword", "InvalidCurrentPassword", <<>>)
                        /\ cmp' = cmp
                   ELSE IF Len(newPassword) < MinPasswordLength
                   THEN /\ ret' = Ret("changeMasterPassword", "WeakPassword", <<>>)
                        /\ cmp' = cmp
                   ELSE /\ cmp' = [pc |-> "getAll", newPassword |-> newPassword]
                        /\ ret' = ret
    /\ UNCHANGED <<now, localStorage, chromeStorage, rst, ps>>

\* lines 100-131: getAll delivers, the passwords are decrypted with the
\* current key and encrypted with the new one, the write is issued
ChangeMasterPasswordReEncrypt ==
    /\ cmp.pc = "getAll"
    /\ \E ga \in getAll(Mem, chromeStorage) :
       LET m1 == ga[1]
           allPasswords == ga[2]
       IN  IF allPasswords # <<>> /\ m1.encryptionKey = Null
           THEN /\ Install(m1)
                /\ cmp' = Idle
                /\ ret' = Ret("changeMasterPassword", "VaultLocked", <<>>)
           ELSE \E decryptedPasswords \in DecryptPasswords(allPasswords, m1.encryptionKey) :
                LET m2 == IF allPasswords = <<>> THEN m1 ELSE updateActivity(m1)
                    newEncryptionKey == EncryptionKey(cmp.newPassword)
                    m3 == [m2 EXCEPT !.encryptionKey = newEncryptionKey]
                    reEncryptedPasswords ==
                        [i \in 1..Len(decryptedPasswords) |->
                            [decryptedPasswords[i] EXCEPT
                                !.password = AESEncrypt(@, newEncryptionKey)]]
                    m4 == IF allPasswords = <<>> THEN m3 ELSE updateActivity(m3)
                IN  /\ WithinLayers(reEncryptedPasswords)
                    /\ Install(m4)
                    /\ cmp' = [pc |-> "set", newPassword |-> cmp.newPassword,
                               oldEncryptionKey |-> m2.encryptionKey,
                               reEncryptedPasswords |-> reEncryptedPasswords]
                    /\ ret' = ret
    /\ UNCHANGED <<now, localStorage, chromeStorage, rst, ps>>

\* lines 131-142: chrome.storage.local.set resolves or rejects
ChangeMasterPasswordSave ==
    /\ cmp.pc = "set"
    /\ cmp' = Idle
    /\ \/ \E saved \in BOOLEAN :
          LET m == [Mem EXCEPT !.masterPasswordHash = VerifyHash(cmp.newPassword),
                               !.lastActivity = now]
          IN  /\ chromeStorage' = cmp.reEncryptedPasswords
              /\ Install(m)
              /\ localStorage' = saveSecurityState(m, saved)
              /\ ret' = Ret("changeMasterPassword", "ok", <<>>)
       \/ /\ Install([Mem EXCEPT !.encryptionKey = cmp.oldEncryptionKey])
          /\ ret' = Ret("changeMasterPassword", "PersistenceError", <<>>)
          /\ UNCHANGED <<localStorage, chromeStorage>>
    /\ UNCHANGED <<now, rst, ps>>

\* resetSecurity up to its wait on chrome.storage.local.clear
ResetSecurity ==
    /\ rst.pc = "idle"
    /\ Install([lockVault(Mem) EXCEPT !.masterPasswordHash = Null])
    /\ rst' = [pc |-> "clear"]
    /\ UNCHANGED <<now, localStorage, chromeStorage, cmp, ps, ret>>

\* chrome.storage.local.clear resolves or rejects
ResetSecurityClear ==
    /\ rst.pc = "clear"
    /\ rst' = Idle
    /\ \/ /\ chromeStorage' = <<>>
          /\ localStorage' = Null
          /\ ret' = Ret("resetSecurity", "ok", <<>>)
       \/ /\ ret' = Ret("resetSecurity", "ResetFailed", <<>>)
          /\ UNCHANGED <<localStorage, chromeStorage>>
    /\ UNCHANGED <<isLocked, masterPasswordHash, encryptionKey, autoLockTimer,
                   lastActivity, timers, now, cmp, ps>>

(* ------------------- ChromeStoragePasswordService --------------------- *)
\* add up to its wait on saveToStorage
Add(username, password) ==
    /\ ps.pc = "idle"
    /\ Len(chromeStorage) < MaxRecords
    /\ LET newEntry == [id |-> generateId(chromeStorage),
                        username |-> Plain(username), password |-> Plain(password)]
           e == encryptSensitiveData(Mem, newEntry)
       IN  /\ Install(e[1])
           /\ ps' = [pc |-> "save", op |-> "add",
                     passwords |-> Append(chromeStorage, e[2])]
    /\ UNCHANGED <<now, localStorage, chromeStorage, cmp, rst, ret>>

\* update up to its wait on saveToStorage
Update(id, entry) ==
    /\ ps.pc = "idle"
    /\ IF \A i \in 1..Len(chromeStorage) : chromeStorage[i].id # id
       THEN /\ ret' = Ret("update", "NotFound", <<>>)
            /\ UNCHANGED <<isLocked, masterPasswordHash, encryptionKey, autoLockTimer,
                           lastActivity, timers, ps>>
       ELSE LET index == CHOOSE i \in 1..Len(chromeStorage) : chromeStorage[i].id = id
                updatedEntry == Merge(chromeStorage[index], entry)
                e == encryptSensitiveData(Mem, updatedEntry)
            IN  /\ WithinLayers(<<e[2]>>)
                /\ Install(e[1])
                /\ ps' = [pc |-> "save", op |-> "update",
                          passwords |-> [chromeStorage EXCEPT ![index] = e[2]]]
                /\ ret' = ret
    /\ UNCHANGED <<now, localStorage, chromeStorage, cmp, rst>>

\* saveToStorage resolves or rejects
SaveToStorage ==
    /\ ps.pc = "save"
    /\ ps' = Idle
    /\ \/ /\ chromeStorage' = ps.passwords
          /\ ret' = Ret(ps.op, "ok", <<>>)
       \/ /\ chromeStorage' = chromeStorage
          /\ ret' = Ret(ps.op, "SaveFailed", <<>>)
    /\ UNCHANGED <<isLocked, masterPasswordHash, encryptionKey, autoLockTimer,
                   lastActivity, timers, now, localStorage, cmp, rst>>

GetAll ==
    /\ \E ga \in getAll(Mem, chromeStorage) :
          /\ Install(ga[1])
          /\ ret' = Ret("getAll", "ok", ga[2])
    /\ UNCHANGED <<now, localStorage, chromeStorage, cmp, rst, ps>>

GetById(id) ==
    /\ \E i \in 1..Len(chromeStorage) :
          /\ chromeStorage[i].id = id
          /\ \A j \in 1..(i - 1) : chromeStorage[j].id # id
          /\ \E d \in decryptSensitiveData(Mem, chromeStorage[i]) :
                /\ Install(d[1])
                /\ ret' = Ret("getById", "ok", <<d[2]>>)
    /\ UNCHANGED <<now, localStorage, chromeStorage, cmp, rst, ps>>

(* --------------------------- the runtime ------------------------------ *)
\* time passes, never beyond the moment a pending timeout is due
Tick ==
    /\ now + TickMinutes <= MaxTime
    /\ \A t \in timers : now + TickMinutes <= t.due
    /\ now' = now + TickMinutes
    /\ UNCHANGED <<isLocked, masterPasswordHash, encryptionKey, autoLockTimer,
                   lastActivity, timers, localStorage, chromeStorage, cmp, rst,
                   ps, ret>>

\* the callback of setAutoLockTimer runs when its timeout is due
AutoLockExpiry ==
    \E t \in timers :
        /\ t.due <= MaxTime
        /\ \A o \in timers : t.due <= o.due
        /\ now' = IF now < t.due THEN t.due ELSE now
        /\ Install(lockVault([Mem EXCEPT !.timers = timers \ {t}]))
        /\ UNCHANGED <<localStorage, chromeStorage, cmp, rst, ps, ret>>

\* a mousedown, mousemove, keypress, scroll or touchstart event reaches the
\* listener registered by setupActivityListener
UserActivity ==
    /\ Install(IF ~isLocked THEN updateActivity(Mem) ELSE Mem)
    /\ UNCHANGED <<now, localStorage, chromeStorage, cmp, rst, ps, ret>>

\* the side panel component unmounts: its cleanup removes the chrome.tabs
\* listeners it had added and calls nothing on the security service
Teardown ==
    /\ ret' = Ret("teardown", "ok", <<>>)
    /\ UNCHANGED <<isLocked, masterPasswordHash, encryptionKey, autoLockTimer,
                   lastActivity, timers, now, localStorage, chromeStorage,
                   cmp, rst, ps>>

\* the session ends and the service is constructed again
Restart ==
    /\ Install(loadSecurityState([isLocked |-> TRUE, masterPasswordHash |-> Null,
                                  encryptionKey |-> Null, autoLockTimer |-> 0,
                                  lastActivity |-> now, timers |-> {}]))
    /\ cmp' = Idle
    /\ rst' = Idle
    /\ ps' = Idle
    /\ ret' = Ret("constructor", "ok", <<>>)
    /\ UNCHANGED <<now, localStorage, chromeStorage>>

Usernames == {"alice"}
Secrets == {"hunter2", ""}

\* the partial entries update is called with
Partials ==
    {[password |-> Plain(s)] : s \in Secrets}
    \cup {[username |-> Plain(u)] : u \in Usernames}

\* the strings encryptData and decryptData are called with
DataInputs ==
    {Plain(s) : s \in Secrets}
    \cup {chromeStorage[i].password : i \in 1..Len(chromeStorage)}
    \cup {chromeStorage[i].username : i \in 1..Len(chromeStorage)}
    \cup (IF ret.op = "encryptData" /\ ret.out = "ok" THEN {ret.val[1]} ELSE {})

\* the password inputs of the store specifications
StorePasswords == {PwA, PwAEnc}

(* --------------------------- specifications --------------------------- *)
\* the security service alone: the password store stays empty
Next ==
    \/ \E p \in Passwords : SetMasterPassword(p)
    \/ \E p \in Passwords : UnlockVault(p)
    \/ LockVault
    \/ IsLocked
    \/ HasMasterPassword
    \/ \E d \in DataInputs : EncryptData(d)
    \/ \E d \in DataInputs : DecryptData(d)
    \/ \E c, n \in Passwords : ChangeMasterPassword(c, n)
    \/ ChangeMasterPasswordReEncrypt
    \/ ChangeMasterPasswordSave
    \/ ResetSecurity
    \/ ResetSecurityClear
    \/ Tick
    \/ AutoLockExpiry
    \/ UserActivity
    \/ Restart

Spec == Init /\ [][Next]_vars

\* the security service with a password store of one entry; the master
\* password is set up once and changed through changeMasterPassword
NextStore1 ==
    \/ \E p \in StorePasswords : masterPasswordHash = Null /\ SetMasterPassword(p)
    \/ \E p \in StorePasswords : UnlockVault(p)
    \/ LockVault
    \/ HasMasterPassword
    \/ \E c, n \in StorePasswords : ChangeMasterPassword(c, n)
    \/ ChangeMasterPasswordReEncrypt
    \/ ChangeMasterPasswordSave
    \/ \E u \in Usernames, s \in Secrets : chromeStorage = <<>> /\ Add(u, s)
    \/ SaveToStorage

SpecStore1 == Init /\ [][NextStore1]_vars

\* changeMasterPassword interleaved with add on a store of MaxRecords entries
NextStore ==
    \/ \E p \in StorePasswords : masterPasswordHash = Null /\ SetMasterPassword(p)
    \/ LockVault
    \/ \E c, n \in StorePasswords : ChangeMasterPassword(c, n)
    \/ ChangeMasterPasswordReEncrypt
    \/ ChangeMasterPasswordSave
    \/ \E u \in Usernames : Add(u, "hunter2")
    \/ SaveToStorage

SpecStore == Init /\ [][NextStore]_vars

\* add and update on a vault that is set up once, locked and unlocked
NextWrite ==
    \/ masterPasswordHash = Null /\ SetMasterPassword(PwA)
    \/ UnlockVault(PwA)
    \/ LockVault
    \/ \E u \in Usernames, s \in Secrets : Add(u, s)
    \/ \E id \in 1..MaxRecords, entry \in Partials : Update(id, entry)
    \/ SaveToStorage

SpecWrite == Init /\ [][NextWrite]_vars

\* the password store written and read on a vault that is set up at most
\* once, locked and unlocked
NextReadWrite ==
    \/ masterPasswordHash = Null /\ SetMasterPassword(PwA)
    \/ UnlockVault(PwA)
    \/ LockVault
    \/ \E u \in Usernames, s \in Secrets : Add(u, s)
    \/ \E id \in 1..MaxRecords, entry \in Partials : Update(id, entry)
    \/ SaveToStorage
    \/ GetAll
    \/ \E id \in 1..MaxRecords : GetById(id)

SpecReadWrite == Init /\ [][NextReadWrite]_vars

\* the security service under the side panel that hosts it
NextPanel ==
    \/ masterPasswordHash = Null /\ SetMasterPassword(PwA)
    \/ UnlockVault(PwA)
    \/ LockVault
    \/ HasMasterPassword
    \/ \E d \in DataInputs : EncryptData(d)
    \/ UserActivity
    \/ Tick
    \/ AutoLockExpiry
    \/ Teardown

SpecPanel == Init /\ [][NextPanel]_vars

(* ------------------------------ claims -------------------------------- *)
\* C1: in every reachable state the in-memory encryption key is present
\* if and only if isLocked() is false.
C1_KeyPresentIffUnlocked ==
    (encryptionKey # Null) <=> ~isLocked

\* the calls C2 names as ending the locked period; changeMasterPassword
\* counts through the unlockVault call it starts with
UnlockingCall ==
    \/ \E p \in Passwords : SetMasterPassword(p) \/ UnlockVault(p)
    \/ \E c, n \in Passwords : ChangeMasterPassword(c, n)

\* C2: once lockVault (called or run by the auto-lock timeout) has cleared
\* the key, encryptData and decryptData fail with the vault-locked error
\* and keep failing until an unlockVault or setMasterPassword succeeds.
C2_LockedUntilUnlock ==
    [][/\ (LockVault \/ AutoLockExpiry) => encryptionKey' = Null
       /\ (encryptionKey = Null /\ \E d \in DataInputs : EncryptData(d) \/ DecryptData(d))
             => ret'.out = "VaultLocked"
       /\ (encryptionKey = Null /\ encryptionKey' # Null) => UnlockingCall]_vars

\* C3: on a vault with a master password unlockVault(p) returns true and
\* leaves the vault unlocked exactly when the verification hash of p is the
\* stored hash; otherwise it returns false and changes neither the locked
\* flag, the key, the stored hash nor the auto-lock timer.
C3_UnlockExactlyOnMatch ==
    [][\A p \in Passwords :
          (masterPasswordHash # Null /\ UnlockVault(p)) =>
             IF VerifyHash(p) = masterPasswordHash
             THEN /\ ret' = Ret("unlockVault", "true", <<>>)
                  /\ ~isLocked'
                  /\ encryptionKey' = EncryptionKey(p)
             ELSE /\ ret' = Ret("unlockVault", "false", <<>>)
                  /\ UNCHANGED <<isLocked, encryptionKey, masterPasswordHash,
                                 localStorage, autoLockTimer, timers>>]_vars

\* C3 witness: a wrong password was refused on a locked vault
C3_Witness ==
    /\ ret = Ret("unlockVault", "false", <<>>)
    /\ masterPasswordHash # Null
    /\ isLocked
    /\ encryptionKey = Null

\* C4: setMasterPassword fails with the weak-password error and changes
\* nothing for a password that is too short or lacks a lowercase letter, an
\* uppercase letter, a digit or a symbol; for any other password it
\* succeeds, persists the verification hash and leaves the vault unlocked
\* with an auto-lock timeout pending.
C4_WeakPasswordRejected ==
    [][\A p \in Passwords :
          SetMasterPassword(p) =>
             IF validateMasterPassword(p)
             THEN /\ ret' = Ret("setMasterPassword", "ok", <<>>)
                  /\ localStorage' # Null
                  /\ localStorage'[1].masterPasswordHash = VerifyHash(p)
                  /\ ~isLocked'
                  /\ \E t \in timers' : t.id = autoLockTimer'
             ELSE /\ ret' = Ret("setMasterPassword", "WeakPassword", <<>>)
                  /\ UNCHANGED <<isLocked, encryptionKey, masterPasswordHash,
                                 localStorage, autoLockTimer, timers>>]_vars

\* the step with which changeMasterPassword returns successfully
ChangeSucceeds ==
    ChangeMasterPasswordSave /\ ret' = Ret("changeMasterPassword", "ok", <<>>)

\* the step with which changeMasterPassword fails on the persistence of the
\* re-encrypted records
ChangeFailsToPersist ==
    ChangeMasterPasswordSave /\ ret' = Ret("changeMasterPassword", "PersistenceError", <<>>)

\* C5: after a successful changeMasterPassword every persisted record has
\* its username and its password stored as one layer of ciphertext under
\* the key of the new password, over a plaintext that is not a decoding
\* artefact, and no ciphertext under another key remains.
C5_AllReEncrypted ==
    [][ChangeSucceeds =>
          \A i \in 1..Len(chromeStorage') :
             LET k == EncryptionKey(cmp.newPassword)
                 r == chromeStorage'[i]
             IN  /\ r.username.ks = <<k>>
                 /\ r.password.ks = <<k>>
                 /\ r.username.pt # Garbage.pt
                 /\ r.password.pt # Garbage.pt]_vars

\* C6: when persisting the re-encrypted records fails, the call fails and
\* afterwards the vault is unlocked, the key in memory is the key of the
\* password whose hash is stored, and hash and records are as before.
C6_RollbackKeepsVaultUsable ==
    [][ChangeFailsToPersist =>
          /\ ~isLocked'
          /\ \E p \in Passwords : /\ masterPasswordHash' = VerifyHash(p)
                                  /\ encryptionKey' = EncryptionKey(p)
          /\ UNCHANGED <<masterPasswordHash, localStorage, chromeStorage>>]_vars

\* C7: when changeMasterPassword returns, the persisted hash and the
\* persisted records are both those of the new password or both as they
\* were before.
C7_HashAndRecordsTogether ==
    [][ChangeMasterPasswordSave =>
          \/ /\ localStorage' # Null
             /\ localStorage'[1].masterPasswordHash = VerifyHash(cmp.newPassword)
             /\ chromeStorage' = cmp.reEncryptedPasswords
          \/ UNCHANGED <<localStorage, chromeStorage>>]_vars

\* the keys an entry's sensitive fields are encrypted under
KeysOf(entry) ==
    {Last(f.ks) : f \in {g \in {entry.username, entry.password} : g.ks # <<>>}}

\* C8: persisted storage never holds one record encrypted under one key
\* and another record encrypted under a different key.
C8_NoMixedKeys ==
    \A i, j \in 1..Len(chromeStorage) :
       \A ki \in KeysOf(chromeStorage[i]), kj \in KeysOf(chromeStorage[j]) :
          i # j => ki = kj

\* the vault-mutating calls C9 names, other than changeMasterPassword
MutatingCall ==
    \/ LockVault
    \/ ResetSecurity
    \/ \E p \in Passwords : SetMasterPassword(p) \/ UnlockVault(p)

\* C9: while changeMasterPassword is in progress every other vault-mutating
\* call is rejected with the vault-busy error and changes nothing.
C9_BusyRejectsMutators ==
    [][(cmp.pc # "idle" /\ MutatingCall) =>
          /\ ret'.out = "VaultBusy"
          /\ UNCHANGED <<isLocked, encryptionKey, masterPasswordHash, autoLockTimer,
                         timers, localStorage, chromeStorage>>]_vars

\* C10: changeMasterPassword with a current password whose verification
\* hash is not the stored hash fails with the invalid-current-password
\* error and leaves the locked flag, the key, the stored hash, the persisted
\* records and the auto-lock timer as they were.
C10_InvalidCurrentMutatesNothing ==
    [][\A c, n \in Passwords :
          (/\ masterPasswordHash # Null
           /\ VerifyHash(c) # masterPasswordHash
           /\ ChangeMasterPassword(c, n)) =>
             /\ ret' = Ret("changeMasterPassword", "InvalidCurrentPassword", <<>>)
             /\ UNCHANGED <<isLocked, encryptionKey, masterPasswordHash, lastActivity,
                            autoLockTimer, timers, localStorage, chromeStorage, cmp>>]_vars

\* C10 witness: a change with a wrong current password was refused on an
\* unlocked vault, which still holds its key and its timeout
C10_Witness ==
    /\ ret = Ret("changeMasterPassword", "InvalidCurrentPassword", <<>>)
    /\ masterPasswordHash # Null
    /\ ~isLocked
    /\ encryptionKey # Null
    /\ timers # {}

\* the timeout of setAutoLockTimer is pending and due no later than a full
\* auto-lock interval after the last activity
AutoLockDue ==
    \E t \in timers : /\ t.id = autoLockTimer
                      /\ now <= t.due
                      /\ t.due <= lastActivity + DEFAULT_AUTO_LOCK_MINUTES

ActivityStep ==
    \/ \E d \in DataInputs : EncryptData(d) \/ DecryptData(d)
    \/ UserActivity

\* C12: while isLocked() is false every encryptData call, decryptData call
\* and user-activity event leaves exactly one timeout pending, the one held
\* in state.autoLockTimer and due a full auto-lock interval later (so the
\* timeout runs only a full interval after the last of them); while
\* isLocked() is true none of them changes the pending timeouts.
C12_ActivityRearmsTimer ==
    [][ActivityStep =>
          IF ~isLocked
          THEN timers' = {[id |-> autoLockTimer',
                           due |-> now + DEFAULT_AUTO_LOCK_MINUTES]}
          ELSE timers' = timers]_vars

\* the step with which resetSecurity returns successfully
ResetSucceeds ==
    ResetSecurityClear /\ ret' = Ret("resetSecurity", "ok", <<>>)

\* C13: when resetSecurity returns successfully, no hash is held in memory
\* or in localStorage (hasMasterPassword() answers false), no key is held,
\* no auto-lock timeout is pending and no record is persisted.
C13_ResetClearsEverything ==
    [][ResetSucceeds =>
          /\ masterPasswordHash' = Null
          /\ localStorage' = Null
          /\ encryptionKey' = Null
          /\ timers' = {}
          /\ chromeStorage' = <<>>]_vars

\* the encryption keys a step knows of: the key held before it, the key
\* held after it and the key changeMasterPassword keeps for its rollback
KeysAtStep ==
    ({encryptionKey, encryptionKey'}
        \cup (IF cmp.pc = "set" THEN {cmp.oldEncryptionKey} ELSE {})) \ {Null}

\* C14: the security record in localStorage never holds a value equal to
\* the encryption key in memory or to an encryption key held earlier.
C14_KeyNeverPersisted ==
    [][localStorage' # Null =>
          localStorage'[1].masterPasswordHash \notin KeysAtStep]_vars

\* the sensitive fields of record i that a write put into the store
WrittenFields(i) ==
    IF i > Len(chromeStorage)
    THEN {chromeStorage'[i].username, chromeStorage'[i].password}
    ELSE {f \in {chromeStorage'[i].username, chromeStorage'[i].password} :
             f \notin {chromeStorage[i].username, chromeStorage[i].password}}

\* C15: with a master password configured and the vault locked, no add or
\* update writes a username or a password to the store in plaintext.
C15_LockedWriteNeverPlaintext ==
    [][(/\ masterPasswordHash # Null
        /\ isLocked
        /\ SaveToStorage
        /\ ret'.out = "ok") =>
          \A i \in 1..Len(chromeStorage') :
             \A f \in WrittenFields(i) : f.ks # <<>>]_vars

\* the service has just been constructed: nothing was called since
JustConstructed ==
    /\ ret.op = "constructor"
    /\ cmp.pc = "idle"
    /\ rst.pc = "idle"
    /\ ps.pc = "idle"

\* C16: right after construction isLocked() is true exactly when
\* localStorage holds a security record with a master-password hash.
C16_LockedIffRecordAtConstruction ==
    JustConstructed =>
       (isLocked <=> (localStorage # Null /\ localStorage[1].masterPasswordHash # Null))

\* C17: at most one auto-lock timeout is pending at any time, and a
\* pending timeout is the one held in state.autoLockTimer.
C17_AtMostOneTimer ==
    /\ Cardinality(timers) <= 1
    /\ \A t \in timers : t.id = autoLockTimer

\* C17 witness: an encryptData call at a later moment replaced the timeout
\* the unlocking call had scheduled
C17_Witness ==
    /\ ret.op = "encryptData"
    /\ ret.out = "ok"
    /\ now > 0
    /\ lastActivity = now
    /\ timers = {[id |-> autoLockTimer, due |-> now + DEFAULT_AUTO_LOCK_MINUTES]}

\* C18: a lockVault call leaves the vault locked, without key and without
\* pending timeout and leaves the hash alone; a second call right after it,
\* and a call on a vault that isLocked() already reports as locked, change
\* nothing in memory or in the stores.
C18_LockIdempotent ==
    /\ [][LockVault =>
             /\ isLocked'
             /\ encryptionKey' = Null
             /\ timers' = {}
             /\ autoLockTimer' = 0
             /\ UNCHANGED <<masterPasswordHash, localStorage, chromeStorage>>
             /\ lockVault(Mem') = Mem']_vars
    /\ [][(isLocked /\ LockVault) =>
             UNCHANGED <<isLocked, masterPasswordHash, encryptionKey, autoLockTimer,
                         lastActivity, timers, localStorage, chromeStorage>>]_vars

\* C19: the verification hash and the encryption key that one call derives
\* from its password differ, for every password setMasterPassword and
\* unlockVault accept.
C19_HashDiffersFromKey ==
    /\ \A p \in Passwords : VerifyHash(p) # EncryptionKey(p)
    /\ [][\A p \in Passwords :
             (/\ SetMasterPassword(p) \/ UnlockVault(p)
              /\ ret'.out \in {"ok", "true"}) =>
                /\ masterPasswordHash' = VerifyHash(p)
                /\ encryptionKey' = EncryptionKey(p)
                /\ masterPasswordHash' # encryptionKey']_vars

\* C19 witness: unlockVault accepted the password whose verification hash
\* is the encryption key of another password
C19_Witness ==
    /\ ret = Ret("unlockVault", "true", <<>>)
    /\ masterPasswordHash = VerifyHash(PwAEnc)
    /\ masterPasswordHash = EncryptionKey(PwA)
    /\ encryptionKey = EncryptionKey(PwAEnc)

C21_WrongKeyFails ==
    [][\A d \in DataInputs :
          (/\ encryptionKey # Null
           /\ d.ks # <<>>
           /\ ~IsCiphertextUnder(d, encryptionKey)
           /\ DecryptData(d)) =>
             ret' = Ret("decryptData", "null", <<>>)]_vars

\* the sensitive fields held in the password store
PersistedFields ==
    UNION {{chromeStorage[i].username, chromeStorage[i].password} :
              i \in 1..Len(chromeStorage)}

\* C22: setMasterPassword(p) and changeMasterPassword(_, p) install the
\* encryption key of p, and a successful unlockVault(p) installs a key under
\* which every persisted ciphertext that was produced under that key
\* decrypts to the value that was encrypted.
C22_SameKeyOnUnlock ==
    /\ [][\A p \in Passwords :
             (SetMasterPassword(p) /\ ret'.out = "ok") =>
                encryptionKey' = EncryptionKey(p)]_vars
    /\ [][(ChangeMasterPasswordReEncrypt /\ cmp'.pc = "set") =>
             encryptionKey' = EncryptionKey(cmp.newPassword)]_vars
    /\ [][\A p \in Passwords :
             (masterPasswordHash # Null /\ UnlockVault(p) /\ ret'.out = "true") =>
                \A f \in PersistedFields :
                   IsCiphertextUnder(f, EncryptionKey(p)) =>
                      AESDecrypt(f, encryptionKey') = {<<[pt |-> f.pt, ks |-> Front(f.ks)]>>}]_vars

\* C22 witness: unlockVault succeeded on a vault whose store holds a
\* password encrypted under the key it installed
C22_Witness ==
    /\ ret = Ret("unlockVault", "true", <<>>)
    /\ ~isLocked
    /\ \E i \in 1..Len(chromeStorage) :
          /\ chromeStorage[i].password.pt = "hunter2"
          /\ chromeStorage[i].password.ks = <<encryptionKey>>

\* no master password is configured, in memory or in localStorage
NoMasterPassword ==
    masterPasswordHash = Null /\ localStorage = Null

\* the entry update(id, entry) is to write: the stored one with the fields
\* named in entry replaced
Updated(stored, entry) ==
    [id |-> stored.id,
     username |-> IF "username" \in DOMAIN entry THEN entry.username ELSE stored.username,
     password |-> IF "password" \in DOMAIN entry THEN entry.password ELSE stored.password]

C24_TeardownLeavesNothing ==
    /\ [](ret.op = "teardown" => timers = {})
    /\ [][(ret.op = "teardown" /\ UserActivity) =>
             UNCHANGED <<lastActivity, autoLockTimer, timers>>]_vars

\* C25: hasMasterPassword() and isLocked() are pure queries: neither
\* changes the locked flag, the encryption key or the auto-lock timeout, so
\* after hasMasterPassword() on an unlocked vault isLocked() is still false.
C25_QueriesArePure ==
    [][(HasMasterPassword \/ IsLocked) =>
          UNCHANGED <<isLocked, encryptionKey, autoLockTimer, timers>>]_vars

\* the calls that present a password whose verification hash is the stored
\* hash
PresentsStoredPassword ==
    \E p \in Passwords :
       /\ VerifyHash(p) = masterPasswordHash
       /\ \/ UnlockVault(p)
          \/ SetMasterPassword(p)
          \/ \E n \in Passwords : ChangeMasterPassword(p, n)

\* C26: on a locked vault with a master password, only a call that presents
\* a password whose verification hash is the stored hash unlocks the vault,
\* installs a key or replaces the hash held in memory or in localStorage.
C26_OnlyCorrectPasswordUnlocks ==
    [][(/\ masterPasswordHash # Null
        /\ localStorage # Null
        /\ localStorage[1].masterPasswordHash = masterPasswordHash
        /\ isLocked
        /\ encryptionKey = Null
        /\ cmp.pc = "idle"
        /\ rst.pc = "idle"
        /\ \/ ~isLocked'
           \/ encryptionKey' # Null
           \/ masterPasswordHash' \notin {masterPasswordHash, Null}
           \/ localStorage' # Null /\ localStorage' # localStorage) =>
          PresentsStoredPassword]_vars

\* lockVault has run since changeMasterPassword verified the current
\* password, and the vault has not been unlocked since: the flag is set and
\* the timeout that the verification had scheduled is gone
LockedDuringChange ==
    /\ cmp.pc # "idle"
    /\ isLocked
    /\ timers = {}

\* C27: when lockVault has run while changeMasterPassword was waiting, the
\* vault is locked and holds no key once changeMasterPassword returns.
C27_LockDuringChangeStays ==
    [][(/\ LockedDuringChange
        /\ ChangeMasterPasswordReEncrypt \/ ChangeMasterPasswordSave
        /\ cmp'.pc = "idle") =>
          (isLocked' /\ encryptionKey' = Null)]_vars

\* changeMasterPassword fails before its first wait: no master password,
\* wrong current password or new password too short
ChangeRejected ==
    /\ \E c, n \in Passwords : ChangeMasterPassword(c, n)
    /\ ret'.op = "changeMasterPassword"
    /\ ret'.out \in {"NoMasterPassword", "InvalidCurrentPassword", "WeakPassword"}
    /\ cmp' = Idle

\* C28: a changeMasterPassword call that fails leaves isLocked() as it was
\* before the call, and a locked vault without key.
C28_FailedChangeKeepsLock ==
    [][ChangeRejected =>
          /\ isLocked' = isLocked
          /\ encryptionKey = Null => encryptionKey' = Null]_vars

\* C29: on an unlocked vault update(id, partial) writes every sensitive
\* field that partial does not name as it is stored: a stored ciphertext is
\* not encrypted a second time.
C29_UpdateKeepsOtherFields ==
    [][\A id \in 1..MaxRecords, entry \in Partials :
          (~isLocked /\ encryptionKey # Null /\ Update(id, entry) /\ ps'.pc = "save") =>
             \A i \in 1..Len(chromeStorage) :
                chromeStorage[i].id = id =>
                   /\ "username" \notin DOMAIN entry =>
                         ps'.passwords[i].username = chromeStorage[i].username
                   /\ "password" \notin DOMAIN entry =>
                         ps'.passwords[i].password = chromeStorage[i].password]_vars

\* the entry is stored as add writes it on an unlocked vault: both fields
\* encrypted once, under the key in memory
AsAddedUnlocked(entry) ==
    /\ entry.username.ks = <<encryptionKey>>
    /\ entry.password.ks = <<encryptionKey>>

\* what the caller gets for such an entry: the strings given to add
AsGiven(entry) ==
    [id |-> entry.id, username |-> Plain(entry.username.pt),
     password |-> Plain(entry.password.pt)]

\* C30: on an unlocked vault getAll and getById return, for every entry
\* that add wrote under the key in memory, the username and password that
\* were given to add, the empty string included.
C30_AddGetRoundTrip ==
    /\ [][(~isLocked /\ encryptionKey # Null /\ GetAll) =>
             /\ Len(ret'.val) = Len(chromeStorage)
             /\ \A i \in 1..Len(chromeStorage) :
                   AsAddedUnlocked(chromeStorage[i]) =>
                      ret'.val[i] = AsGiven(chromeStorage[i])]_vars
    /\ [][\A id \in 1..MaxRecords :
             (~isLocked /\ encryptionKey # Null /\ GetById(id)) =>
                \A i \in 1..Len(chromeStorage) :
                   (chromeStorage[i].id = id /\ AsAddedUnlocked(chromeStorage[i])) =>
                      ret'.val = <<AsGiven(chromeStorage[i])>>]_vars

====
